---- MODULE Spec2Model ----
(***************************************************************************)
(* Model of mne/channels/_dig_montage_utils.py: the two digitization       *)
(* readers (_read_dig_montage_fif, _read_dig_montage_egi) and the frame    *)
(* resolver (_transform_to_head_call).                                     *)
(*                                                                         *)
(* Conventions                                                             *)
(*   - A Python value that may be None is a sequence of length <= 1:       *)
(*     None is <<>>, a present value v is <<v>>.                           *)
(*   - A Bunch is a record; a dict is a function on its keys.              *)
(*   - A source point is an integer 3-vector <<x, y, z>>.  A point in the  *)
(*     head frame produced by apply_trans is the exact 6-tuple             *)
(*     <<a, b, c, n, m, k>> standing for (a/sqrt n, b/sqrt m, c/sqrt k).   *)
(*   - A raised exception is a record [type, args]; NoExc when the call    *)
(*     returned.                                                           *)
(***************************************************************************)
EXTENDS Integers, Sequences, FiniteSets, TLC

VARIABLES
    reader,    \* who made the Bunch: "fif", "egi", or "caller" (built by hand)
    pc,        \* "read": a reader is to run; "head": the Bunch is with the
               \* caller of _transform_to_head_call; "failed": the reader raised
    dig,       \* _read_dig_montage_fif: the decoded records (_read_dig_fif)
    sensors,   \* _read_dig_montage_egi: the sensor nodes of the XML tree
    scaling,   \* _read_dig_montage_egi: _scaling
    before,    \* the caller's Bunch when _transform_to_head_call was entered
    data,      \* the Bunch: a reader's return value / the caller's object
    exc,       \* the exception the last call raised, NoExc if it returned
    warnings,  \* the kinds passed to warn(), in order
    calls      \* number of _transform_to_head_call calls made on data

vars == <<reader, pc, dig, sensors, scaling, before, data, exc, warnings, calls>>

----------------------------------------------------------------------------
(* Bounds of the model *)

MaxDig == 5       \* longest decoded record sequence
MaxSensors == 5   \* longest sensor list
MaxLen == 4       \* longest elp / point_names
MaxCalls == 2     \* calls of _transform_to_head_call on one record

----------------------------------------------------------------------------
(* Python values *)

None == <<>>
Some(v) == <<v>>
IsNone(x) == x = None
Val(x) == x[1]

NoExc == [type |-> "none", args |-> <<>>]
Raise(t, a) == [type |-> t, args |-> a]

NoBunch == [coord_frame |-> "",
            nasion |-> None, lpa |-> None, rpa |-> None,
            hsp |-> None, hpi |-> None, elp |-> None,
            point_names |-> None, dig_ch_pos |-> None]

\* d[key] = val on a dict
SetItem(d, key, val) == [k \in DOMAIN d \cup {key} |-> IF k = key THEN val ELSE d[k]]

EmptyDict == [k \in {} |-> None]

Digit == <<"0", "1", "2", "3", "4", "5", "6", "7", "8", "9">>

\* '%03d' % n, for 0 <= n
RECURSIVE Decimal(_)
Decimal(n) == IF n < 10 THEN Digit[n + 1]
              ELSE Decimal(n \div 10) \o Digit[(n % 10) + 1]

Fmt03d(n) == IF n < 10 THEN "00" \o Decimal(n)
             ELSE IF n < 100 THEN "0" \o Decimal(n)
             ELSE Decimal(n)

----------------------------------------------------------------------------
(* FIFF constants (mne/io/constants.py) *)

FIFFV_POINT_CARDINAL == 1
FIFFV_POINT_HPI == 2
FIFFV_POINT_EEG == 3
FIFFV_POINT_EXTRA == 4
FIFFV_POINT_LPA == 1
FIFFV_POINT_NASION == 2
FIFFV_POINT_RPA == 3

_cardinal_ident_mapping ==
    [i \in {FIFFV_POINT_NASION, FIFFV_POINT_LPA, FIFFV_POINT_RPA} |->
        IF i = FIFFV_POINT_NASION THEN "nasion"
        ELSE IF i = FIFFV_POINT_LPA THEN "lpa" ELSE "rpa"]

----------------------------------------------------------------------------
(* _read_dig_montage_fif *)

\* montage._check_frame(d, 'head'): raises unless d is in the head frame
_check_frame(d, frame_str) == d.coord_frame = frame_str

FifAcc0 == [hsp |-> <<>>, hpi |-> <<>>, elp |-> <<>>, point_names |-> <<>>,
            fids |-> EmptyDict, dig_ch_pos |-> EmptyDict, exc |-> NoExc]

\* mutant: the frame of an EEG record not checked
Mut_FifStep_EegUnchecked(a, d) ==
    IF d.kind = FIFFV_POINT_CARDINAL THEN
        IF ~_check_frame(d, "head") THEN [a EXCEPT !.exc = Raise("FrameMismatch", <<>>)]
        ELSE IF d.ident \notin DOMAIN _cardinal_ident_mapping
             THEN [a EXCEPT !.exc = Raise("MalformedInput", <<>>)]
        ELSE [a EXCEPT !.fids = SetItem(a.fids, _cardinal_ident_mapping[d.ident], d.r)]
    ELSE IF d.kind = FIFFV_POINT_HPI THEN
        IF ~_check_frame(d, "head") THEN [a EXCEPT !.exc = Raise("FrameMismatch", <<>>)]
        ELSE [a EXCEPT !.hpi = Append(a.hpi, d.r),
                       !.elp = Append(a.elp, d.r),
                       !.point_names = Append(a.point_names, "HPI" \o Fmt03d(d.ident))]
    ELSE IF d.kind = FIFFV_POINT_EXTRA THEN
        IF ~_check_frame(d, "head") THEN [a EXCEPT !.exc = Raise("FrameMismatch", <<>>)]
        ELSE [a EXCEPT !.hsp = Append(a.hsp, d.r)]
    ELSE IF d.kind = FIFFV_POINT_EEG THEN
        [a EXCEPT !.dig_ch_pos = SetItem(a.dig_ch_pos, "EEG" \o Fmt03d(d.ident), d.r)]
    ELSE a

\* one iteration of `for d in dig`
FifStep(a, d) ==
    IF d.kind = FIFFV_POINT_CARDINAL THEN
        IF ~_check_frame(d, "head") THEN [a EXCEPT !.exc = Raise("FrameMismatch", <<>>)]
        ELSE IF d.ident \notin DOMAIN _cardinal_ident_mapping
             THEN [a EXCEPT !.exc = Raise("MalformedInput", <<>>)]
        ELSE [a EXCEPT !.fids = SetItem(a.fids, _cardinal_ident_mapping[d.ident], d.r)]
    ELSE IF d.kind = FIFFV_POINT_HPI THEN
        IF ~_check_frame(d, "head") THEN [a EXCEPT !.exc = Raise("FrameMismatch", <<>>)]
        ELSE [a EXCEPT !.hpi = Append(a.hpi, d.r),
                       !.elp = Append(a.elp, d.r),
                       !.point_names = Append(a.point_names, "HPI" \o Fmt03d(d.ident))]
    ELSE IF d.kind = FIFFV_POINT_EXTRA THEN
        IF ~_check_frame(d, "head") THEN [a EXCEPT !.exc = Raise("FrameMismatch", <<>>)]
        ELSE [a EXCEPT !.hsp = Append(a.hsp, d.r)]
    ELSE IF d.kind = FIFFV_POINT_EEG THEN
        IF ~_check_frame(d, "head") THEN [a EXCEPT !.exc = Raise("FrameMismatch", <<>>)]
        ELSE [a EXCEPT !.dig_ch_pos = SetItem(a.dig_ch_pos, "EEG" \o Fmt03d(d.ident), d.r)]
    ELSE a

RECURSIVE FifLoop(_, _, _)
FifLoop(ds, i, a) ==
    IF i > Len(ds) \/ a.exc # NoExc THEN a
    ELSE FifLoop(ds, i + 1, FifStep(a, ds[i]))

\* the value of fids[name] for the three names, or the KeyError
MissingFids(fids) ==
    SelectSeq(<<"nasion", "lpa", "rpa">>, LAMBDA n : n \notin DOMAIN fids)

\* [ret |-> Bunch, exc |-> exception]
_read_dig_montage_fif(ds) ==
    LET a == FifLoop(ds, 1, FifAcc0) IN
    IF a.exc # NoExc THEN [ret |-> NoBunch, exc |-> a.exc]
    ELSE IF MissingFids(a.fids) # <<>>
         THEN [ret |-> NoBunch,
               exc |-> Raise("MissingFiducial", <<Head(MissingFids(a.fids))>>)]
    ELSE [ret |-> [nasion |-> Some(a.fids["nasion"]),
                   lpa |-> Some(a.fids["lpa"]),
                   rpa |-> Some(a.fids["rpa"]),
                   hsp |-> IF Len(a.hsp) > 0 THEN Some(a.hsp) ELSE None,
                   hpi |-> Some(a.hpi),
                   elp |-> IF Len(a.elp) > 0 THEN Some(a.elp) ELSE None,
                   point_names |-> Some(a.point_names),
                   dig_ch_pos |-> Some(a.dig_ch_pos),
                   coord_frame |-> "head"],
          exc |-> NoExc]

----------------------------------------------------------------------------
(* _read_dig_montage_egi *)

fid_name_map ==
    [n \in {"Nasion", "Right periauricular point", "Left periauricular point"} |->
        IF n = "Nasion" THEN "nasion"
        ELSE IF n = "Right periauricular point" THEN "rpa" ELSE "lpa"]

\* coordinates *= _scaling
Scaled(xyz, s) == <<xyz[1] * s, xyz[2] * s, xyz[3] * s>>

EgiAcc0 == [fids |-> EmptyDict, dig_ch_pos |-> EmptyDict,
            warned |-> <<>>, exc |-> NoExc]

\* mutant: every kind but 0 and 2 taken for a reference sensor
Mut_EgiStep_ElseReference(a, s, _scaling) ==
    LET coordinates == Scaled(s.xyz, _scaling) IN
    IF s.kind = 0 THEN
        [a EXCEPT !.dig_ch_pos =
            SetItem(a.dig_ch_pos, "EEG " \o Fmt03d(s.number), coordinates)]
    ELSE IF s.kind = 2 THEN
        IF s.name \notin DOMAIN fid_name_map
        THEN [a EXCEPT !.exc = Raise("MalformedInput", <<>>)]
        ELSE [a EXCEPT !.fids = SetItem(a.fids, fid_name_map[s.name], coordinates)]
    ELSE
        [a EXCEPT !.dig_ch_pos =
            SetItem(a.dig_ch_pos,
                    "EEG " \o Fmt03d(Cardinality(DOMAIN a.dig_ch_pos) + 1),
                    coordinates)]

\* one iteration of `for s in sensors`
EgiStep(a, s, _scaling) ==
    LET coordinates == Scaled(s.xyz, _scaling) IN
    IF s.kind = 0 THEN
        [a EXCEPT !.dig_ch_pos =
            SetItem(a.dig_ch_pos, "EEG " \o Fmt03d(s.number), coordinates)]
    ELSE IF s.kind = 1 THEN
        [a EXCEPT !.dig_ch_pos =
            SetItem(a.dig_ch_pos,
                    "EEG " \o Fmt03d(Cardinality(DOMAIN a.dig_ch_pos) + 1),
                    coordinates)]
    ELSE IF s.kind = 2 THEN
        IF s.name \notin DOMAIN fid_name_map
        THEN [a EXCEPT !.exc = Raise("MalformedInput", <<>>)]
        ELSE [a EXCEPT !.fids = SetItem(a.fids, fid_name_map[s.name], coordinates)]
    ELSE [a EXCEPT !.warned = Append(a.warned, s.kind)]

RECURSIVE EgiLoop(_, _, _, _)
EgiLoop(ss, i, a, _scaling) ==
    IF i > Len(ss) \/ a.exc # NoExc THEN a
    ELSE EgiLoop(ss, i + 1, EgiStep(a, ss[i], _scaling), _scaling)

\* mutant: fids.get(name) for fids[name]: a missing fiducial is None
Mut_read_egi_FidsGet(ss, _scaling) ==
    LET a == EgiLoop(ss, 1, EgiAcc0, _scaling)
        get(name) == IF name \in DOMAIN a.fids THEN Some(a.fids[name]) ELSE None
    IN
    IF a.exc # NoExc THEN [ret |-> NoBunch, exc |-> a.exc, warned |-> a.warned]
    ELSE [ret |-> [nasion |-> get("nasion"), lpa |-> get("lpa"), rpa |-> get("rpa"),
                   dig_ch_pos |-> Some(a.dig_ch_pos),
                   coord_frame |-> "unknown",
                   hsp |-> None, hpi |-> None, elp |-> None,
                   point_names |-> None],
          exc |-> NoExc, warned |-> a.warned]

\* [ret |-> Bunch, exc |-> exception, warned |-> the warnings emitted]
_read_dig_montage_egi(ss, _scaling) ==
    LET a == EgiLoop(ss, 1, EgiAcc0, _scaling) IN
    IF a.exc # NoExc THEN [ret |-> NoBunch, exc |-> a.exc, warned |-> a.warned]
    ELSE IF MissingFids(a.fids) # <<>>
         THEN [ret |-> NoBunch,
               exc |-> Raise("MissingFiducial", <<Head(MissingFids(a.fids))>>),
               warned |-> a.warned]
    ELSE [ret |-> [nasion |-> Some(a.fids["nasion"]),
                   lpa |-> Some(a.fids["lpa"]),
                   rpa |-> Some(a.fids["rpa"]),
                   dig_ch_pos |-> Some(a.dig_ch_pos),
                   coord_frame |-> "unknown",
                   hsp |-> None, hpi |-> None, elp |-> None,
                   point_names |-> None],
          exc |-> NoExc, warned |-> a.warned]

----------------------------------------------------------------------------
(* transforms.get_ras_to_neuromag_trans and transforms.apply_trans *)

Sub(p, q) == <<p[1] - q[1], p[2] - q[2], p[3] - q[3]>>
Add(p, q) == <<p[1] + q[1], p[2] + q[2], p[3] + q[3]>>
Mul(k, p) == <<k * p[1], k * p[2], k * p[3]>>
Dot(p, q) == p[1] * q[1] + p[2] * q[2] + p[3] * q[3]
Cross(p, q) == <<p[2] * q[3] - p[3] * q[2],
                 p[3] * q[1] - p[1] * q[3],
                 p[1] * q[2] - p[2] * q[1]>>

Abs(n) == IF n < 0 THEN -n ELSE n

RECURSIVE Gcd(_, _)
Gcd(a, b) == IF b = 0 THEN a ELSE Gcd(b, a % b)

\* the shortest integer vector along v (v itself when v = 0)
Direction(v) ==
    LET g == Gcd(Gcd(Abs(v[1]), Abs(v[2])), Abs(v[3]))
    IN IF g = 0 THEN v ELSE <<v[1] \div g, v[2] \div g, v[3] \div g>>

\* The head frame of three landmarks: origin the midpoint of lpa and rpa, x
\* along lpa -> rpa, y the part of (nasion - origin) orthogonal to x, z = x
\* cross y.  Kept exact: o2 is twice the origin; ex, ey, ez are integer
\* vectors along the axes and nx, ny, nz the squares of twice their lengths,
\* so that the unit axes are 2 ex / sqrt nx, 2 ey / sqrt ny, 2 ez / sqrt nz.
get_ras_to_neuromag_trans(nasion, lpa, rpa) ==
    LET ex == Direction(Sub(rpa, lpa))
        o2 == Add(lpa, rpa)
        v2 == Sub(Mul(2, nasion), o2)
        ey == Direction(Sub(Mul(Dot(ex, ex), v2), Mul(Dot(v2, ex), ex)))
        ez == Direction(Cross(ex, ey))
    IN [degenerate |-> Dot(ex, ex) = 0 \/ Dot(ey, ey) = 0,
        o2 |-> o2, ex |-> ex, ey |-> ey, ez |-> ez,
        nx |-> 4 * Dot(ex, ex),
        ny |-> 4 * Dot(ey, ey),
        nz |-> 4 * Dot(ez, ez)]

\* one point through the transform
ApplyOne(t, p) ==
    LET q == Sub(Mul(2, p), t.o2)
    IN <<Dot(q, t.ex), Dot(q, t.ey), Dot(q, t.ez), t.nx, t.ny, t.nz>>

\* apply_trans(trans, pts) on an (n, 3) array
apply_trans(t, pts) == [i \in 1..Len(pts) |-> ApplyOne(t, pts[i])]

----------------------------------------------------------------------------
(* _transform_to_head_call *)

\* name.lower() on the labels of the model
Lower(name) ==
    IF name \in {"Nasion", "NASION", "nasion"} THEN "nasion"
    ELSE IF name \in {"LPA", "Lpa", "lpa"} THEN "lpa"
    ELSE IF name \in {"RPA", "Rpa", "rpa"} THEN "rpa"
    ELSE IF name = "HPI001" THEN "hpi001"
    ELSE name

\* names.index(kind): the first position of kind, 0-based positions + 1
Index(names, kind) ==
    CHOOSE i \in 1..Len(names) :
        names[i] = kind /\ \A j \in 1..(i - 1) : names[j] # kind

InSeq(x, s) == \E i \in 1..Len(s) : s[i] = x

kinds == <<"nasion", "lpa", "rpa">>

\* the sequence s[i] for the i with mask[i]
RECURSIVE Masked(_, _, _)
Masked(s, mask, i) ==
    IF i > Len(s) THEN <<>>
    ELSE IF mask[i] THEN <<s[i]>> \o Masked(s, mask, i + 1)
    ELSE Masked(s, mask, i + 1)

\* mutant: hsp left in the source frame and hpi transformed instead
Mut_TransformTail_HpiForHsp(d, nasion, lpa, rpa) ==
    LET native_head_t == get_ras_to_neuromag_trans(nasion, lpa, rpa) IN
    IF native_head_t.degenerate
    THEN [data |-> d, exc |-> Raise("DegenerateLandmarks", <<>>)]
    ELSE LET fid == apply_trans(native_head_t, <<nasion, lpa, rpa>>) IN
         [data |->
            [d EXCEPT !.nasion = Some(fid[1]),
                      !.lpa = Some(fid[2]),
                      !.rpa = Some(fid[3]),
                      !.elp = IF IsNone(d.elp) THEN None
                              ELSE Some(apply_trans(native_head_t, Val(d.elp))),
                      !.hpi = IF IsNone(d.hpi) THEN None
                              ELSE Some(apply_trans(native_head_t, Val(d.hpi))),
                      !.dig_ch_pos =
                          IF IsNone(d.dig_ch_pos) THEN None
                          ELSE Some([key \in DOMAIN Val(d.dig_ch_pos) |->
                                       ApplyOne(native_head_t, Val(d.dig_ch_pos)[key])]),
                      !.coord_frame = "head"],
          exc |-> NoExc]

\* the transform derived and applied, d being the caller's object so far
TransformTail(d, nasion, lpa, rpa) ==
    LET native_head_t == get_ras_to_neuromag_trans(nasion, lpa, rpa) IN
    IF native_head_t.degenerate
    THEN [data |-> d, exc |-> Raise("DegenerateLandmarks", <<>>)]
    ELSE LET fid == apply_trans(native_head_t, <<nasion, lpa, rpa>>) IN
         [data |->
            [d EXCEPT !.nasion = Some(fid[1]),
                      !.lpa = Some(fid[2]),
                      !.rpa = Some(fid[3]),
                      !.elp = IF IsNone(d.elp) THEN None
                              ELSE Some(apply_trans(native_head_t, Val(d.elp))),
                      !.hsp = IF IsNone(d.hsp) THEN None
                              ELSE Some(apply_trans(native_head_t, Val(d.hsp))),
                      !.dig_ch_pos =
                          IF IsNone(d.dig_ch_pos) THEN None
                          ELSE Some([key \in DOMAIN Val(d.dig_ch_pos) |->
                                       ApplyOne(native_head_t, Val(d.dig_ch_pos)[key])]),
                      !.coord_frame = "head"],
          exc |-> NoExc]

\* mutant: the labels compared as written
Mut_LowerNames_AsWritten(point_names) == point_names

\* names = [name.lower() for name in data.point_names]
LowerNames(point_names) == [i \in 1..Len(point_names) |-> Lower(point_names[i])]

\* missing = [name for name in kinds if name not in names]
Missing(names) == SelectSeq(kinds, LAMBDA name : ~InSeq(name, names))

\* mutant: every entry carrying a fiducial label masked out, not the first
Mut_FidMask_AllOccurrences(names) ==
    [i \in 1..Len(names) |-> \A k \in 1..3 : names[i] # kinds[k]]

\* mask = np.ones(len(names)); mask[names.index(fid)] = False for the three
FidMask(names) ==
    [i \in 1..Len(names) |-> \A k \in 1..3 : i # Index(names, kinds[k])]

\* the landmarks taken from elp / point_names, and both lists without them
ExtractFids(d) ==
    IF IsNone(d.elp) \/ IsNone(d.point_names)
    THEN [data |-> d, exc |-> Raise("MissingFiducial", <<>>)]
    ELSE
    LET elp == Val(d.elp)
        point_names == Val(d.point_names)
        names == LowerNames(point_names)
        missing == Missing(names)
    IN
    IF Len(missing) > 0
    THEN [data |-> d, exc |-> Raise("MissingFiducial", missing)]
    ELSE IF \E k \in 1..3 : Index(names, kinds[k]) > Len(elp)
    THEN [data |-> d, exc |-> Raise("IndexError", <<>>)]
    ELSE
    LET mask == FidMask(names) IN
    IF Len(elp) # Len(mask)
    THEN [data |-> d, exc |-> Raise("IndexError", <<>>)]
    ELSE TransformTail([d EXCEPT !.elp = Some(Masked(elp, mask, 1)),
                                 !.point_names = Some(Masked(point_names, mask, 1))],
                       elp[Index(names, "nasion")],
                       elp[Index(names, "lpa")],
                       elp[Index(names, "rpa")])

\* mutant: the head-frame test dropped
Mut_transform_NoHeadTest(d) ==
    IF IsNone(d.nasion) \/ IsNone(d.rpa) \/ IsNone(d.lpa)
    THEN ExtractFids(d)
    ELSE TransformTail(d, Val(d.nasion), Val(d.lpa), Val(d.rpa))

\* [data |-> the caller's object after the call, exc |-> exception];
\* when exc = NoExc the call returned data
_transform_to_head_call(d) ==
    IF d.coord_frame = "head" THEN [data |-> d, exc |-> NoExc]
    ELSE IF IsNone(d.nasion) \/ IsNone(d.rpa) \/ IsNone(d.lpa)
    THEN ExtractFids(d)
    ELSE TransformTail(d, Val(d.nasion), Val(d.lpa), Val(d.rpa))

----------------------------------------------------------------------------
(* Inputs *)

\* the position of the i-th record / sensor of an input: distinct points
PointAt(i) == <<i, i * i, 1>>

DigShape(kind, ident, frame) == [kind |-> kind, ident |-> ident, coord_frame |-> frame]

\* kind, ident and frame of decoded records in the head frame: the three
\* cardinal points, a cardinal point of an unlisted ident, an HPI coil, an
\* EEG electrode, an extra point, a point of a kind the reader does not list
DigShapes ==
    { DigShape(FIFFV_POINT_CARDINAL, FIFFV_POINT_NASION, "head"),
      DigShape(FIFFV_POINT_CARDINAL, FIFFV_POINT_LPA, "head"),
      DigShape(FIFFV_POINT_CARDINAL, FIFFV_POINT_RPA, "head"),
      DigShape(FIFFV_POINT_CARDINAL, FIFFV_POINT_RPA + 1, "head"),
      DigShape(FIFFV_POINT_HPI, 1, "head"),
      DigShape(FIFFV_POINT_EEG, 1, "head"),
      DigShape(FIFFV_POINT_EXTRA, 1, "head"),
      DigShape(FIFFV_POINT_EXTRA + 1, 1, "head") }

\* decoded records some of which are outside the head frame: the cardinal
\* points of DigShapes, and one point of each kind in frame "unknown"
FrameShapes ==
    { DigShape(FIFFV_POINT_CARDINAL, FIFFV_POINT_NASION, "head"),
      DigShape(FIFFV_POINT_CARDINAL, FIFFV_POINT_LPA, "head"),
      DigShape(FIFFV_POINT_CARDINAL, FIFFV_POINT_RPA, "head"),
      DigShape(FIFFV_POINT_CARDINAL, FIFFV_POINT_RPA + 1, "head"),
      DigShape(FIFFV_POINT_CARDINAL, FIFFV_POINT_NASION, "unknown"),
      DigShape(FIFFV_POINT_HPI, 1, "unknown"),
      DigShape(FIFFV_POINT_EEG, 1, "unknown"),
      DigShape(FIFFV_POINT_EXTRA, 1, "unknown"),
      DigShape(FIFFV_POINT_EXTRA + 1, 1, "unknown") }

\* the decoded records of the given shapes, the i-th at PointAt(i)
DigOf(f) ==
    [i \in DOMAIN f |-> [kind |-> f[i].kind, ident |-> f[i].ident,
                         r |-> PointAt(i), coord_frame |-> f[i].coord_frame]]

\* name, number and kind of the sensors: an EEG channel, a reference, the
\* three fiducials, a fiducial of an unlisted name, a sensor of unknown kind
SensorShapes ==
    { [name |-> "E2", number |-> 2, kind |-> 0],
      [name |-> "Cz", number |-> 129, kind |-> 1],
      [name |-> "Nasion", number |-> 130, kind |-> 2],
      [name |-> "Left periauricular point", number |-> 131, kind |-> 2],
      [name |-> "Right periauricular point", number |-> 132, kind |-> 2],
      [name |-> "Inion", number |-> 133, kind |-> 2],
      [name |-> "X", number |-> 134, kind |-> 99] }

\* the sensor nodes of the given shapes, the i-th at PointAt(i)
SensorsOf(f) ==
    [i \in DOMAIN f |-> [name |-> f[i].name, number |-> f[i].number,
                         kind |-> f[i].kind, xyz |-> PointAt(i)]]

\* _scaling
Scalings == {1, 2}

\* labels of elp entries
PointNames == {"Nasion", "LPA", "rpa", "HPI001"}

\* elp of length n: points no three of which are colinear, or points of one line
ElpSpread(n) == [i \in 1..n |-> <<i, i * i, 0>>]
ElpLine(n) == [i \in 1..n |-> <<i, 0, 0>>]

Bunch(frame, fid, elp, names, rest) ==
    [coord_frame |-> frame, nasion |-> fid[1], lpa |-> fid[2], rpa |-> fid[3],
     hsp |-> rest[1], hpi |-> rest[2], dig_ch_pos |-> rest[3],
     elp |-> elp, point_names |-> names]

\* nasion, lpa, rpa: absent, partly given, given, given on one line
LandmarkInputs ==
    { <<None, None, None>>,
      <<Some(<<0, 1, 0>>), None, Some(<<1, 0, 0>>)>>,
      <<Some(<<0, 2, 0>>), Some(<<-1, 0, 0>>), Some(<<1, 0, 0>>)>>,
      <<Some(<<0, 0, 0>>), Some(<<-1, 0, 0>>), Some(<<1, 0, 0>>)>> }

\* hsp, hpi, dig_ch_pos
RestInputs ==
    { <<None, None, None>>,
      <<None, Some(<<>>), Some(EmptyDict)>>,
      <<Some(<<<<0, 0, 1>>, <<2, 1, 0>>>>), Some(<<<<1, 1, 1>>>>),
        Some(SetItem(SetItem(EmptyDict, "EEG001", <<1, 2, 3>>), "EEG002", <<0, 3, 1>>))>> }

\* elp beside point_names: absent, or one shorter, as long, or one longer
ElpInputs(names) ==
    LET n == IF IsNone(names) THEN 1 ELSE Len(Val(names)) IN
    {None} \cup
    UNION { {Some(ElpSpread(m)), Some(ElpLine(m))} :
            m \in {k \in {n - 1, n, n + 1} : 0 <= k /\ k <= MaxLen} }

----------------------------------------------------------------------------
(* The three entry points as actions *)

InitFif ==
    /\ reader = "fif" /\ pc = "read"
    /\ \E n \in 0..MaxDig : \E f \in [1..n -> DigShapes] : dig = DigOf(f)
    /\ sensors = <<>> /\ scaling = 1
    /\ before = NoBunch /\ data = NoBunch /\ exc = NoExc
    /\ warnings = <<>> /\ calls = 0

InitFifFrames ==
    /\ reader = "fif" /\ pc = "read"
    /\ \E n \in 0..MaxDig : \E f \in [1..n -> FrameShapes] : dig = DigOf(f)
    /\ sensors = <<>> /\ scaling = 1
    /\ before = NoBunch /\ data = NoBunch /\ exc = NoExc
    /\ warnings = <<>> /\ calls = 0

InitEgi ==
    /\ reader = "egi" /\ pc = "read"
    /\ dig = <<>>
    /\ \E n \in 0..MaxSensors : \E f \in [1..n -> SensorShapes] :
          sensors = SensorsOf(f)
    /\ scaling \in Scalings
    /\ before = NoBunch /\ data = NoBunch /\ exc = NoExc
    /\ warnings = <<>> /\ calls = 0

InitHead ==
    /\ reader = "caller" /\ pc = "head"
    /\ dig = <<>> /\ sensors = <<>> /\ scaling = 1
    /\ before = NoBunch
    /\ \E frame \in {"head", "unknown"}, fid \in LandmarkInputs,
          rest \in RestInputs :
          \/ \E elp \in ElpInputs(None) :
                data = Bunch(frame, fid, elp, None, rest)
          \/ \E n \in 0..MaxLen : \E f \in [1..n -> PointNames] :
                \E elp \in ElpInputs(Some(f)) :
                   data = Bunch(frame, fid, elp, Some(f), rest)
    /\ exc = NoExc /\ warnings = <<>> /\ calls = 0

ReadFif ==
    /\ reader = "fif" /\ pc = "read"
    /\ LET r == _read_dig_montage_fif(dig) IN
       /\ data' = r.ret
       /\ exc' = r.exc
       /\ pc' = IF r.exc = NoExc THEN "head" ELSE "failed"
    /\ UNCHANGED <<reader, dig, sensors, scaling, before, warnings, calls>>

ReadEgi ==
    /\ reader = "egi" /\ pc = "read"
    /\ LET r == _read_dig_montage_egi(sensors, scaling) IN
       /\ data' = r.ret
       /\ exc' = r.exc
       /\ warnings' = r.warned
       /\ pc' = IF r.exc = NoExc THEN "head" ELSE "failed"
    /\ UNCHANGED <<reader, dig, sensors, scaling, before, calls>>

ToHead ==
    /\ pc = "head" /\ calls < MaxCalls
    /\ LET r == _transform_to_head_call(data) IN
       /\ before' = data
       /\ data' = r.data
       /\ exc' = r.exc
    /\ calls' = calls + 1
    /\ UNCHANGED <<reader, pc, dig, sensors, scaling, warnings>>

Init == InitFif \/ InitFifFrames \/ InitEgi \/ InitHead
Next == ReadFif \/ ReadEgi \/ ToHead
Spec == Init /\ [][Next]_vars

\* the binary reader on head-frame records, then the resolver
NextFif == ReadFif \/ ToHead
SpecFif == InitFif /\ [][NextFif]_vars

\* the binary reader on records of mixed frames
NextFifFrames == ReadFif \/ ToHead
SpecFifFrames == InitFifFrames /\ [][NextFifFrames]_vars

\* the XML reader, then the resolver
NextEgi == ReadEgi \/ ToHead
SpecEgi == InitEgi /\ [][NextEgi]_vars

\* both readers
InitReaders == InitFif \/ InitEgi
NextReaders == ReadFif \/ ReadEgi \/ ToHead
SpecReaders == InitReaders /\ [][NextReaders]_vars

\* the resolver on records a caller built
NextHead == ToHead
SpecHead == InitHead /\ [][NextHead]_vars

----------------------------------------------------------------------------
(* Claims *)

\* a call of _transform_to_head_call has been made; before and data are
\* the caller's record on entry and after it
Called == calls > 0
Succeeded == Called /\ exc = NoExc
Failed == Called /\ exc # NoExc

LandmarksAbsent(d) == IsNone(d.nasion) /\ IsNone(d.lpa) /\ IsNone(d.rpa)
LandmarksGiven(d) == ~IsNone(d.nasion) /\ ~IsNone(d.lpa) /\ ~IsNone(d.rpa)

\* the lowercased labels of d, as a set-indexed reading of point_names
LabelAt(d, i) == Lower(Val(d.point_names)[i])
Labelled(d, kind) ==
    /\ ~IsNone(d.point_names)
    /\ \E i \in 1..Len(Val(d.point_names)) : LabelAt(d, i) = kind

\* the position of the entry matched for kind: the first with that label
MatchedPos(d, kind) ==
    CHOOSE i \in 1..Len(Val(d.point_names)) :
        /\ LabelAt(d, i) = kind
        /\ \A j \in 1..Len(Val(d.point_names)) : LabelAt(d, j) = kind => i <= j

MatchedSet(d) == {MatchedPos(d, "nasion"), MatchedPos(d, "lpa"), MatchedPos(d, "rpa")}

\* the position in the original list of the j-th entry that was not matched
UnmatchedPos(d, j) ==
    CHOOSE i \in 1..Len(Val(d.point_names)) :
        /\ i \notin MatchedSet(d)
        /\ Cardinality({k \in 1..i : k \notin MatchedSet(d)}) = j

\* the exception names the fiducial labels in M and no others
NamesExactly(M) == {exc.args[i] : i \in 1..Len(exc.args)} = M

\* C1: a record whose coord_frame is head comes back from
\* _transform_to_head_call with every field unchanged and no error, whatever
\* its other fields hold; so any number of calls equals one call.
C1_HeadNoOp ==
    (Called /\ before.coord_frame = "head") => (exc = NoExc /\ data = before)

\* C1 witness: a second call on a head-frame record without landmarks whose
\* elp still carries the three fiducial labels left it as it was
C1_Witness ==
    /\ calls = 2 /\ before.coord_frame = "head"
    /\ LandmarksAbsent(before)
    /\ Labelled(before, "nasion") /\ Labelled(before, "lpa") /\ Labelled(before, "rpa")
    /\ ~IsNone(before.elp) /\ Len(Val(before.elp)) = Len(Val(before.point_names))
    /\ data = before /\ exc = NoExc

\* C8: outside the head frame, with a landmark not populated, the call fails
\* with MissingFiducial when elp or point_names is absent or one of nasion,
\* lpa, rpa is not among the lowercased point_names; when labels are missing
\* the error names exactly the missing ones; coord_frame is not set to head.
C8_MissingFiducial ==
    (Called /\ before.coord_frame # "head" /\ ~LandmarksGiven(before)) =>
        /\ (IsNone(before.elp) \/ IsNone(before.point_names)) =>
              (exc.type = "MissingFiducial" /\ data.coord_frame # "head")
        /\ (~IsNone(before.elp) /\ ~IsNone(before.point_names)
            /\ \E k \in {"nasion", "lpa", "rpa"} : ~Labelled(before, k)) =>
              /\ exc.type = "MissingFiducial"
              /\ NamesExactly({k \in {"nasion", "lpa", "rpa"} : ~Labelled(before, k)})
              /\ data.coord_frame # "head"

\* C8 witness: point_names held "Nasion" and "rpa" but no lpa label, and
\* the error names lpa alone
C8_Witness ==
    /\ Called /\ before.coord_frame # "head" /\ LandmarksAbsent(before)
    /\ ~IsNone(before.elp)
    /\ Labelled(before, "nasion") /\ Labelled(before, "rpa") /\ ~Labelled(before, "lpa")
    /\ exc = Raise("MissingFiducial", <<"lpa">>)
    /\ data.coord_frame = "unknown"

\* the landmarks the call resolves for d: its own fields when all three are
\* populated, else the elp entries matched by label
Resolved(d, kind) ==
    IF LandmarksGiven(d)
    THEN (IF kind = "nasion" THEN Val(d.nasion)
          ELSE IF kind = "lpa" THEN Val(d.lpa) ELSE Val(d.rpa))
    ELSE Val(d.elp)[MatchedPos(d, kind)]

\* the transform derived from the landmarks resolved for d
HeadTrans(d) ==
    get_ras_to_neuromag_trans(Resolved(d, "nasion"), Resolved(d, "lpa"), Resolved(d, "rpa"))

\* data.elp and data.point_names are before's entries that were not matched,
\* in order, the elp entries through the transform t
UnmatchedKept(t) ==
    LET n == Len(Val(before.point_names)) IN
    /\ Len(Val(before.elp)) = n
    /\ ~IsNone(data.elp) /\ ~IsNone(data.point_names)
    /\ Len(Val(data.elp)) = n - 3
    /\ Len(Val(data.point_names)) = n - 3
    /\ \A j \in 1..(n - 3) :
          /\ Val(data.point_names)[j] = Val(before.point_names)[UnmatchedPos(before, j)]
          /\ Val(data.elp)[j] = ApplyOne(t, Val(before.elp)[UnmatchedPos(before, j)])

C4_TransformScope ==
    (Succeeded /\ before.coord_frame # "head") =>
        LET t == HeadTrans(before) IN
        /\ data.nasion = Some(ApplyOne(t, Resolved(before, "nasion")))
        /\ data.lpa = Some(ApplyOne(t, Resolved(before, "lpa")))
        /\ data.rpa = Some(ApplyOne(t, Resolved(before, "rpa")))
        /\ IF LandmarksGiven(before)
           THEN /\ data.point_names = before.point_names
                /\ IsNone(data.elp) = IsNone(before.elp)
                /\ ~IsNone(before.elp) =>
                      /\ Len(Val(data.elp)) = Len(Val(before.elp))
                      /\ \A i \in 1..Len(Val(before.elp)) :
                            Val(data.elp)[i] = ApplyOne(t, Val(before.elp)[i])
           ELSE UnmatchedKept(t)
        /\ IsNone(data.hsp) = IsNone(before.hsp)
        /\ ~IsNone(before.hsp) =>
              /\ Len(Val(data.hsp)) = Len(Val(before.hsp))
              /\ \A i \in 1..Len(Val(before.hsp)) :
                    Val(data.hsp)[i] = ApplyOne(t, Val(before.hsp)[i])
        /\ IsNone(data.dig_ch_pos) = IsNone(before.dig_ch_pos)
        /\ ~IsNone(before.dig_ch_pos) =>
              /\ DOMAIN Val(data.dig_ch_pos) = DOMAIN Val(before.dig_ch_pos)
              /\ \A key \in DOMAIN Val(before.dig_ch_pos) :
                    Val(data.dig_ch_pos)[key] = ApplyOne(t, Val(before.dig_ch_pos)[key])
        /\ data.hpi = before.hpi
        /\ data.coord_frame = "head"

\* C4 witness: a record with landmarks, elp, hsp, hpi and two electrodes
\* went through the transform
C4_Witness ==
    /\ Succeeded /\ before.coord_frame # "head" /\ LandmarksGiven(before)
    /\ ~IsNone(before.elp) /\ Len(Val(before.elp)) >= 2
    /\ ~IsNone(before.hsp) /\ Len(Val(before.hsp)) >= 2
    /\ ~IsNone(before.hpi) /\ Len(Val(before.hpi)) >= 1
    /\ ~IsNone(before.dig_ch_pos) /\ Cardinality(DOMAIN Val(before.dig_ch_pos)) = 2
    /\ data.coord_frame = "head"
    /\ Val(data.hsp)[1] # Val(before.hsp)[1]

\* C10: when the call fails, the caller's record has the values it had
\* before the call (elp, point_names, landmarks, hsp, dig_ch_pos,
\* coord_frame), so a later call sees the same input.
C10_NoPartialRewrite == Failed => data = before

----------------------------------------------------------------------------
(* Claims about the readers *)

\* a reader has run and nothing has touched its result yet
ReadDone == reader \in {"fif", "egi"} /\ pc # "read" /\ calls = 0
Returned == ReadDone /\ pc = "head"
ReadFailed == ReadDone /\ pc = "failed"

CheckedKinds ==
    {FIFFV_POINT_CARDINAL, FIFFV_POINT_HPI, FIFFV_POINT_EXTRA, FIFFV_POINT_EEG}

CardinalIdents == {FIFFV_POINT_NASION, FIFFV_POINT_LPA, FIFFV_POINT_RPA}

\* the records outside the head frame, and those among them of a listed kind
OffFrame == {i \in 1..Len(dig) : dig[i].coord_frame # "head"}
OffFrameChecked == {i \in OffFrame : dig[i].kind \in CheckedKinds}

\* the cardinal records whose ident is none of nasion, lpa, rpa
UnlistedCardinal ==
    {i \in 1..Len(dig) : dig[i].kind = FIFFV_POINT_CARDINAL
                         /\ dig[i].ident \notin CardinalIdents}

Least(S) == CHOOSE i \in S : \A j \in S : i <= j

\* dig with every record declared in the head frame
InHeadFrame(ds) == [i \in 1..Len(ds) |-> [ds[i] EXCEPT !.coord_frame = "head"]]

RECURSIVE PositionsOfKind(_, _)
PositionsOfKind(ds, kind) ==
    IF ds = <<>> THEN <<>>
    ELSE (IF Head(ds).kind = kind THEN <<Head(ds).r>> ELSE <<>>)
         \o PositionsOfKind(Tail(ds), kind)

\* 'HPI' + zero-padded ident of the HPI records, in input order
RECURSIVE HpiLabels(_)
HpiLabels(ds) ==
    IF ds = <<>> THEN <<>>
    ELSE (IF Head(ds).kind = FIFFV_POINT_HPI
          THEN <<"HPI" \o Fmt03d(Head(ds).ident)>> ELSE <<>>)
         \o HpiLabels(Tail(ds))

\* a list field that the reader leaves absent when it is empty
ListOf(x) == IF IsNone(x) THEN <<>> ELSE Val(x)

HasCardinal(ident) ==
    \E i \in 1..Len(dig) : dig[i].kind = FIFFV_POINT_CARDINAL /\ dig[i].ident = ident

IsPositionOfCardinal(x, ident) ==
    \E i \in 1..Len(dig) :
        dig[i].kind = FIFFV_POINT_CARDINAL /\ dig[i].ident = ident /\ x = Some(dig[i].r)

\* C6 without what it says of dig_ch_pos: the record returned for head-frame
\* records holding the three cardinal points
C6_Classified ==
    /\ data.coord_frame = "head"
    /\ IsPositionOfCardinal(data.nasion, FIFFV_POINT_NASION)
    /\ IsPositionOfCardinal(data.lpa, FIFFV_POINT_LPA)
    /\ IsPositionOfCardinal(data.rpa, FIFFV_POINT_RPA)
    /\ ListOf(data.hsp) = PositionsOfKind(dig, FIFFV_POINT_EXTRA)
    /\ data.hpi = Some(PositionsOfKind(dig, FIFFV_POINT_HPI))
    /\ ListOf(data.elp) = PositionsOfKind(dig, FIFFV_POINT_HPI)
    /\ data.point_names = Some(HpiLabels(dig))
    /\ ~IsNone(data.elp) =>
          /\ Len(Val(data.elp)) = Len(Val(data.hpi))
          /\ Len(Val(data.elp)) = Len(Val(data.point_names))

\* every EEG record is in dig_ch_pos under 'EEG' + zero-padded ident
C6_EveryEegMapped ==
    /\ ~IsNone(data.dig_ch_pos)
    /\ DOMAIN Val(data.dig_ch_pos) =
          {"EEG" \o Fmt03d(dig[i].ident) :
             i \in {j \in 1..Len(dig) : dig[j].kind = FIFFV_POINT_EEG}}
    /\ \A i \in 1..Len(dig) :
          dig[i].kind = FIFFV_POINT_EEG =>
             Val(data.dig_ch_pos)["EEG" \o Fmt03d(dig[i].ident)] = dig[i].r

C6_Case ==
    /\ reader = "fif" /\ Returned /\ OffFrame = {}
    /\ \A c \in CardinalIdents : HasCardinal(c)

\* C6: for head-frame records holding the three cardinal points, the record
\* returned is in the head frame; nasion, lpa, rpa are positions of cardinal
\* records of that ident; hsp is the extra records' positions in order; hpi
\* and elp are the HPI records' positions in order and point_names their
\* labels 'HPI' + zero-padded ident; dig_ch_pos maps 'EEG' + zero-padded
\* ident to the position of each EEG record; records of other kinds add
\* nothing; hpi is an empty sequence, not absent, without HPI records.
C6_BinaryClassification == C6_Case => (C6_Classified /\ C6_EveryEegMapped)

\* C6 apart from dig_ch_pos holding every EEG record: holds of the reader
C6_ClassificationBesidesEeg == C6_Case => C6_Classified

\* the inputs that are stored in dig_ch_pos
EegInputs ==
    IF reader = "fif"
    THEN {i \in 1..Len(dig) : dig[i].kind = FIFFV_POINT_EEG}
    ELSE {i \in 1..Len(sensors) : sensors[i].kind \in {0, 1}}

\* C5: no point in dig_ch_pos silently replaces another: a reader that
\* returns a record stored each EEG / reference input under a key of its
\* own, so the record has as many dig_ch_pos entries as such inputs were read.
C5_KeysNeverCollide ==
    Returned => Cardinality(DOMAIN Val(data.dig_ch_pos)) = Cardinality(EegInputs)

\* the fiducial a reader's input holds a point for
HasFiducial(kind) ==
    IF reader = "fif"
    THEN \E i \in 1..Len(dig) :
            /\ dig[i].kind = FIFFV_POINT_CARDINAL
            /\ dig[i].ident \in DOMAIN _cardinal_ident_mapping
            /\ _cardinal_ident_mapping[dig[i].ident] = kind
    ELSE \E i \in 1..Len(sensors) :
            /\ sensors[i].kind = 2
            /\ sensors[i].name \in DOMAIN fid_name_map
            /\ fid_name_map[sensors[i].name] = kind

\* the scan runs to the end: no fiducial of an unlisted ident / name, and no
\* record outside the head frame
ScanCompletes ==
    IF reader = "fif"
    THEN UnlistedCardinal = {} /\ OffFrameChecked = {}
    ELSE \A i \in 1..Len(sensors) :
            sensors[i].kind = 2 => sensors[i].name \in DOMAIN fid_name_map

\* C7: either reader returns a record only if its input held a point for
\* each of nasion, lpa and rpa, and then all three are populated; when one is
\* missing after the whole input was scanned it fails with MissingFiducial.
C7_MandatoryFiducials ==
    ReadDone =>
        /\ pc = "head" =>
              /\ \A k \in {"nasion", "lpa", "rpa"} : HasFiducial(k)
              /\ LandmarksGiven(data)
        /\ (ScanCompletes /\ \E k \in {"nasion", "lpa", "rpa"} : ~HasFiducial(k)) =>
              (pc = "failed" /\ exc.type = "MissingFiducial")

\* C7 witness: the XML reader scanned an EEG sensor, Nasion and the left
\* point, no right point, and failed with MissingFiducial
C7_Witness ==
    /\ reader = "egi" /\ ReadFailed /\ exc.type = "MissingFiducial"
    /\ Len(sensors) >= 3 /\ ScanCompletes
    /\ HasFiducial("nasion") /\ HasFiducial("lpa") /\ ~HasFiducial("rpa")
    /\ \E i \in 1..Len(sensors) : sensors[i].kind = 0

\* the sensors of a known kind, in order
KnownKind(s) == s.kind \in {0, 1, 2}
UnknownKinds(ss) ==
    LET u == SelectSeq(ss, LAMBDA s : ~KnownKind(s)) IN [i \in 1..Len(u) |-> u[i].kind]

\* the fiducial sensors whose name is none of the three listed
UnlistedFiducial ==
    {i \in 1..Len(sensors) : sensors[i].kind = 2
                             /\ sensors[i].name \notin DOMAIN fid_name_map}

\* C9: a sensor of a kind other than 0, 1, 2 gives one warning and no error,
\* adds nothing and does not stop the scan: the outcome is that of the same
\* list without those sensors (which gives no warning), the keys of later
\* reference sensors included; a returned record has frame unknown and no
\* hsp, hpi, elp, point_names, with one warning per unknown-kind sensor
\* scanned (all of them, unless a fiducial of unlisted name stops the scan).
C9_UnknownKindSkipped ==
    (reader = "egi" /\ ReadDone) =>
        LET r == _read_dig_montage_egi(SelectSeq(sensors, KnownKind), scaling) IN
        /\ data = r.ret /\ exc = r.exc /\ r.warned = <<>>
        /\ exc.type # "MalformedInput" => warnings = UnknownKinds(sensors)
        /\ exc.type = "MalformedInput" =>
              warnings = UnknownKinds(SubSeq(sensors, 1, Least(UnlistedFiducial)))
        /\ pc = "head" =>
              /\ data.coord_frame = "unknown"
              /\ IsNone(data.hsp) /\ IsNone(data.hpi)
              /\ IsNone(data.elp) /\ IsNone(data.point_names)

\* C9 witness: an unknown-kind sensor ahead of a reference sensor, the three
\* fiducials present: one warning, a record, the reference under "EEG 001"
C9_Witness ==
    /\ reader = "egi" /\ Returned /\ Len(warnings) = 1
    /\ \E i, j \in 1..Len(sensors) :
          i < j /\ ~KnownKind(sensors[i]) /\ sensors[j].kind = 1
    /\ DOMAIN Val(data.dig_ch_pos) = {"EEG 001"}

====
